---- MODULE Spec2Model ----
(***************************************************************************)
(* Model of src/main.py: the RSP moving-average bot.                       *)
(*                                                                         *)
(* main() loops forever: run_once() inside try/except Exception, then a    *)
(* fixed sleep.  run_once() sets up the Google Sheets client and the       *)
(* worksheet, fetches daily bars, computes the moving average, classifies  *)
(* the last close against it and writes the label to the target cell.      *)
(*                                                                         *)
(* Numbers.  Closes are integers (price units).  The moving average        *)
(* sum(relevant) / window is kept as the exact fraction <<sum, window>>,   *)
(* and the comparisons of classify_trend are cross-multiplied, so the      *)
(* model is exact rational arithmetic; the rounding of the 64-bit floats   *)
(* of the source is not modelled.                                          *)
(***************************************************************************)
EXTENDS Integers, Sequences, FiniteSets, TLC

VARIABLES
    pc,              \* position of the single thread in main / run_once
    MA_WINDOW,       \* configuration, read once at import (line 28)
    sheet,           \* the remote worksheet: cell address -> value
    bars,            \* run_once local: the fetched, sorted series
    ma_value,        \* run_once local: <<sum, window>>, <<>> while unbound
    last_price,      \* run_once local: <<close>>, <<>> while unbound
    label,           \* run_once local: "WEAK" / "MODERATE" / "STRONG", "None" while unbound
    diff_pct,        \* run_once local: <<numerator, denominator>>, <<>> while unbound
    previous_value,  \* run_once local (line 273/275)
    exc,             \* the exception that left run_once in this cycle, "none" otherwise
    upstream,        \* history: the "bars" list of the HTTP response of this cycle
    steps,           \* history: the calls run_once made in this cycle, in order
    reads,           \* history: the cell addresses read since the process started
    prev_failed,     \* history: the read of the previous value failed in this cycle
    writes,          \* history: the values written to the worksheet in this cycle
    sheet0,          \* history: the worksheet as it was when this cycle started
    last_good        \* history: label of the most recent cycle that returned normally

vars == <<pc, MA_WINDOW, sheet, bars, ma_value, last_price, label, diff_pct,
          previous_value, exc, upstream, steps, reads, prev_failed, writes, sheet0,
          last_good>>

(***************************************************************************)
(* Bounds of the model                                                     *)
(***************************************************************************)
MaxBars == 2
MaxT == 2
MaxWindow == 3

(***************************************************************************)
(* Configuration and data                                                  *)
(***************************************************************************)
TARGET_CELL == "T3"
OTHER_CELL == "A1"
Cells == {TARGET_CELL, OTHER_CELL}
INITIAL_VALUE == "initial"

\* Closes the upstream may report: prices, with 0 as the degenerate one (negative
\* values reach classify_trend under SpecClassify); timestamps are 1..MaxT,
\* duplicates allowed.
CloseValues == {0, 1, 2}
\* A bar is the JSON object of the response; hasC = FALSE is a bar without the key "c".
BarValues ==
    [t : 1..MaxT, c : CloseValues, hasC : {TRUE}] \cup [t : 1..MaxT, c : {0}, hasC : {FALSE}]
\* data.get("bars", []) of the response: up to MaxBars bars in any order
UpstreamResponses == UNION {[1..n -> BarValues] : n \in 0..MaxBars}
\* MA_WINDOW = int(os.getenv("MA_WINDOW", "960")); the window is a number of days,
\* also sent upstream as the request's limit, so it is at least 1.
WindowValues == 1..MaxWindow

Labels == {"WEAK", "MODERATE", "STRONG"}

\* Exceptions each call can raise; all are subclasses of Exception.
ClientErrors == {"RuntimeError", "JSONDecodeError", "GoogleAuthError"}
WorksheetErrors == {"SpreadsheetNotFound", "WorksheetNotFound", "APIError"}
FetchErrors == {"RuntimeError", "RequestException", "HTTPError"}
CellErrors == {"APIError"}
ExceptionClasses ==
    ClientErrors \cup WorksheetErrors \cup FetchErrors \cup CellErrors
        \cup {"ValueError", "ZeroDivisionError", "KeyError"}

(***************************************************************************)
(* Pure helpers                                                            *)
(***************************************************************************)
RECURSIVE Sum(_)
Sum(s) == IF s = <<>> THEN 0 ELSE s[1] + Sum(Tail(s))

Max(a, b) == IF a >= b THEN a ELSE b
Min(a, b) == IF a <= b THEN a ELSE b

\* Python's s[-n:]
TailSlice(s, n) ==
    LET start == IF n > 0 THEN Max(Len(s) - n, 0) ELSE Min(0 - n, Len(s))
    IN  SubSeq(s, start + 1, Len(s))

\* sorted(bars, key=lambda b: b.get("t")): a stable sort, ascending by t.
InsertByT(s, b) ==
    LET k == Cardinality({i \in 1..Len(s) : s[i].t <= b.t})
    IN  SubSeq(s, 1, k) \o <<b>> \o SubSeq(s, k + 1, Len(s))

RECURSIVE SortedByT(_)
SortedByT(s) ==
    IF s = <<>> THEN <<>>
    ELSE InsertByT(SortedByT(SubSeq(s, 1, Len(s) - 1)), s[Len(s)])

\* Variant: sorted(..., reverse=True).
ReversedSeq(s) == [i \in 1..Len(s) |-> s[Len(s) + 1 - i]]
SortedDescending(s) == ReversedSeq(SortedByT(s))

\* line 141: bars = sorted(bars, key=lambda b: b.get("t"))
sorted_bars(s) == SortedByT(s)

\* fetch_rsp_daily_bars after the HTTP call succeeded (lines 131-169)
fetch_result(resp) == IF resp = <<>> THEN <<>> ELSE sorted_bars(resp)

\* closes = [float(b["c"]) for b in bars if "c" in b]
RECURSIVE ClosesOf(_)
ClosesOf(s) ==
    IF s = <<>> THEN <<>>
    ELSE (IF s[1].hasC THEN <<s[1].c>> ELSE <<>>) \o ClosesOf(Tail(s))

Returned(v) == [raised |-> "none", value |-> v]
Raised(e) == [raised |-> e, value |-> <<>>]

\* Variant: the window is used as requested.
NoShrink(closes, window) == window

\* lines 182-189: the window shrinks to the number of closes
effective_window(closes, window) == IF Len(closes) < window THEN Len(closes) ELSE window

\* Variant: closes[:window], the oldest closes instead of the latest.
HeadSlice(closes, window) == SubSeq(closes, 1, Min(Max(window, 0), Len(closes)))

\* line 191: relevant = closes[-window:]
relevant_closes(closes, window) == TailSlice(closes, window)

\* compute_moving_average (lines 176-200)
compute_moving_average(bs, window) ==
    IF bs = <<>> THEN Raised("ValueError")
    ELSE LET closes == ClosesOf(bs)
             w == effective_window(closes, window)
             relevant == relevant_closes(closes, w)
         IN  IF w = 0 THEN Raised("ZeroDivisionError")
             ELSE Returned(<<Sum(relevant), w>>)

\* Variant: the division is not checked.
NeverRaises(ma) == FALSE

\* line 213: the division by ma_value raises ZeroDivisionError when it is 0
division_raises(ma) == ma[1] = 0

\* Variant: >= in place of > at line 215.
WeakInclusive(p, ma) == p * ma[2] * 100 >= ma[1] * 110

\* line 215: last_price > ma_value * 1.10 (ma = <<num, den>>, den > 0)
is_weak(p, ma) == p * ma[2] * 100 > ma[1] * 110

\* line 217: last_price >= ma_value
is_moderate(p, ma) == p * ma[2] >= ma[1]

\* classify_trend (lines 203-231); value is <<label, diff_pct>>
classify_trend(p, ma) ==
    IF division_raises(ma) THEN Raised("ZeroDivisionError")
    ELSE LET d == <<(p * ma[2] - ma[1]) * 100, ma[1]>>
             l == IF is_weak(p, ma) THEN "WEAK"
                  ELSE IF is_moderate(p, ma) THEN "MODERATE"
                  ELSE "STRONG"
         IN  Returned(<<l, d>>)

\* Variant: except RuntimeError.
CatchesOnlyRuntimeError(e) == e = "RuntimeError"

\* except Exception (line 306): every exception the cycle raises is caught
caught(e) == e \in ExceptionClasses

\* Variant: the write takes effect even when the call raises.
WritesEvenWhenFailing(value, e) == <<value>>

\* ws.update(TARGET_CELL, value) with outcome e: the values the call writes. The call
\* either takes effect and returns, or raises without effect.
cell_writes(value, e) == IF e = "none" THEN <<value>> ELSE <<>>

\* the address passed to ws.acell and ws.update (lines 273 and 79)
cell_address == TARGET_CELL

\* Variant: the empty check is missing.
NeverEmpty(bs) == FALSE

\* `if not bars` (line 251)
no_bars(bs) == bs = <<>>

\* Variant: ws.acell outside a try block.
ReadFailurePropagates(e) == IF e = "none" THEN "update" ELSE "except"

\* try/except around ws.acell (lines 272-275): the failure is swallowed
after_previous_read(e) == "update"

\* Variant: run_once starts with the fetch.
FetchFirst == "fetch"

\* the first call of run_once (line 245): the Google Sheets setup comes before the fetch
first_step == "client"

(***************************************************************************)
(* Initial state: the process has started, main is about to call run_once  *)
(***************************************************************************)
Init ==
    /\ pc = "main"
    /\ MA_WINDOW \in WindowValues
    /\ sheet = [a \in Cells |-> INITIAL_VALUE]
    /\ bars = <<>>
    /\ ma_value = <<>>
    /\ last_price = <<>>
    /\ label = "None"
    /\ diff_pct = <<>>
    /\ previous_value = "None"
    /\ exc = "none"
    /\ upstream = <<>>
    /\ steps = <<>>
    /\ reads = {}
    /\ prev_failed = FALSE
    /\ writes = <<>>
    /\ sheet0 = sheet
    /\ last_good = INITIAL_VALUE

Raise(e) == pc' = "except" /\ exc' = e

(***************************************************************************)
(* main, line 305: a new cycle starts, run_once is entered (line 242)      *)
(***************************************************************************)
main_run_once ==
    /\ pc = "main"
    /\ pc' = first_step
    /\ bars' = <<>>
    /\ ma_value' = <<>>
    /\ last_price' = <<>>
    /\ label' = "None"
    /\ diff_pct' = <<>>
    /\ previous_value' = "None"
    /\ exc' = "none"
    /\ upstream' = <<>>
    /\ steps' = <<>>
    /\ prev_failed' = FALSE
    /\ writes' = <<>>
    /\ sheet0' = sheet
    /\ UNCHANGED <<MA_WINDOW, sheet, reads, last_good>>

\* line 245: client = get_gspread_client()
get_gspread_client ==
    /\ pc = "client"
    /\ steps' = Append(steps, "client")
    /\ \E e \in ClientErrors \cup {"none"} :
          IF e = "none" THEN pc' = "worksheet" /\ exc' = exc ELSE Raise(e)
    /\ UNCHANGED <<MA_WINDOW, sheet, bars, ma_value, last_price, label, diff_pct,
                   previous_value, upstream, reads, prev_failed, writes, sheet0, last_good>>

\* line 246: ws = get_dashboard_worksheet(client)
get_dashboard_worksheet ==
    /\ pc = "worksheet"
    /\ steps' = Append(steps, "worksheet")
    /\ \E e \in WorksheetErrors \cup {"none"} :
          IF e = "none" THEN pc' = "fetch" /\ exc' = exc ELSE Raise(e)
    /\ UNCHANGED <<MA_WINDOW, sheet, bars, ma_value, last_price, label, diff_pct,
                   previous_value, upstream, reads, prev_failed, writes, sheet0, last_good>>

\* lines 249-253: bars = fetch_rsp_daily_bars(...); if not bars: return
fetch_rsp_daily_bars ==
    /\ pc = "fetch"
    /\ steps' = Append(steps, "fetch")
    /\ \/ \E e \in FetchErrors :
             /\ Raise(e)
             /\ UNCHANGED <<bars, upstream>>
       \/ \E resp \in UpstreamResponses :
             /\ upstream' = resp
             /\ bars' = fetch_result(resp)
             /\ pc' = IF no_bars(bars') THEN "sleep" ELSE "moving_average"
             /\ exc' = exc
    /\ UNCHANGED <<MA_WINDOW, sheet, ma_value, last_price, label, diff_pct,
                   previous_value, reads, prev_failed, writes, sheet0, last_good>>

\* line 256: ma_value = compute_moving_average(bars, MA_WINDOW)
run_compute_moving_average ==
    /\ pc = "moving_average"
    /\ steps' = Append(steps, "moving_average")
    /\ LET r == compute_moving_average(bars, MA_WINDOW)
       IN  IF r.raised = "none"
           THEN pc' = "last_bar" /\ ma_value' = r.value /\ exc' = exc
           ELSE Raise(r.raised) /\ ma_value' = ma_value
    /\ UNCHANGED <<MA_WINDOW, sheet, bars, last_price, label, diff_pct,
                   previous_value, upstream, reads, prev_failed, writes, sheet0, last_good>>

\* lines 257-265: last_bar = bars[-1]; last_price = float(last_bar["c"])
read_last_bar ==
    /\ pc = "last_bar"
    /\ steps' = Append(steps, "last_bar")
    /\ LET last_bar == bars[Len(bars)]
       IN  IF last_bar.hasC
           THEN pc' = "classify" /\ last_price' = <<last_bar.c>> /\ exc' = exc
           ELSE Raise("KeyError") /\ last_price' = last_price
    /\ UNCHANGED <<MA_WINDOW, sheet, bars, ma_value, label, diff_pct,
                   previous_value, upstream, reads, prev_failed, writes, sheet0, last_good>>

\* line 268: label, diff_pct = classify_trend(last_price, ma_value)
run_classify_trend ==
    /\ pc = "classify"
    /\ steps' = Append(steps, "classify")
    /\ LET r == classify_trend(last_price[1], ma_value)
       IN  IF r.raised = "none"
           THEN pc' = "previous" /\ label' = r.value[1] /\ diff_pct' = r.value[2]
                /\ exc' = exc
           ELSE Raise(r.raised) /\ UNCHANGED <<label, diff_pct>>
    /\ UNCHANGED <<MA_WINDOW, sheet, bars, ma_value, last_price,
                   previous_value, upstream, reads, prev_failed, writes, sheet0, last_good>>

\* lines 272-282: the best-effort read of the previous value of the target cell
read_previous_value ==
    /\ pc = "previous"
    /\ steps' = Append(steps, "previous")
    /\ reads' = reads \cup {cell_address}
    /\ \E e \in CellErrors \cup {"none"} :
          /\ previous_value' = IF e = "none" THEN sheet[cell_address] ELSE "None"
          /\ prev_failed' = (e # "none")
          /\ pc' = after_previous_read(e)
          /\ exc' = IF pc' = "except" THEN e ELSE exc
    /\ UNCHANGED <<MA_WINDOW, sheet, bars, ma_value, last_price, label, diff_pct,
                   upstream, writes, sheet0, last_good>>

\* lines 284-291: update_dashboard_cell(ws, label), the closing log line, return
update_dashboard_cell ==
    /\ pc = "update"
    /\ steps' = Append(steps, "update")
    /\ \E e \in CellErrors \cup {"none"} :
          /\ LET w == cell_writes(label, e)
             IN  /\ writes' = writes \o w
                 /\ sheet' = IF w = <<>> THEN sheet
                             ELSE [sheet EXCEPT ![cell_address] = w[1]]
          /\ IF e = "none"
             THEN pc' = "sleep" /\ exc' = exc /\ last_good' = label
             ELSE Raise(e) /\ last_good' = last_good
    /\ UNCHANGED <<MA_WINDOW, bars, ma_value, last_price, label, diff_pct,
                   previous_value, upstream, reads, prev_failed, sheet0>>

\* lines 306-307: except Exception as e: logger.exception(...)
main_except ==
    /\ pc = "except"
    /\ pc' = IF caught(exc) THEN "sleep" ELSE "exit"
    /\ UNCHANGED <<MA_WINDOW, sheet, bars, ma_value, last_price, label, diff_pct,
                   previous_value, exc, upstream, steps, reads, prev_failed, writes,
                   sheet0, last_good>>

\* lines 309-310: time.sleep(REFRESH_INTERVAL_SECONDS), then the next iteration
main_sleep ==
    /\ pc = "sleep"
    /\ pc' = "main"
    /\ UNCHANGED <<MA_WINDOW, sheet, bars, ma_value, last_price, label, diff_pct,
                   previous_value, exc, upstream, steps, reads, prev_failed, writes,
                   sheet0, last_good>>

Next ==
    \/ main_run_once
    \/ get_gspread_client
    \/ get_dashboard_worksheet
    \/ fetch_rsp_daily_bars
    \/ run_compute_moving_average
    \/ read_last_bar
    \/ run_classify_trend
    \/ read_previous_value
    \/ update_dashboard_cell
    \/ main_except
    \/ main_sleep

Spec == Init /\ [][Next]_vars

\* The thread is sequential and every call returns or raises (the HTTP call has a
\* timeout, the sleep is finite), so the enabled step is eventually taken.
FairSpec == Spec /\ WF_vars(Next)

(***************************************************************************)
(* classify_trend on inputs of its own: the cycle starts at line 268 with  *)
(* a last price and an average drawn independently of each other, then the *)
(* program runs on.                                                        *)
(***************************************************************************)
ClassifyPrices == {-110, -100, 0, 99, 100, 109, 110, 111}
ClassifyAverages == {<<n, d>> : n \in {-100, 0, 99, 100, 200, 300}, d \in WindowValues}

InitClassify ==
    /\ pc = "classify"
    /\ ma_value \in ClassifyAverages
    /\ MA_WINDOW = ma_value[2]
    /\ last_price \in {<<p>> : p \in ClassifyPrices}
    /\ bars = <<[t |-> 1, c |-> last_price[1], hasC |-> TRUE]>>
    /\ upstream = bars
    /\ sheet = [a \in Cells |-> INITIAL_VALUE]
    /\ label = "None"
    /\ diff_pct = <<>>
    /\ previous_value = "None"
    /\ exc = "none"
    /\ steps = <<"client", "worksheet", "fetch", "moving_average", "last_bar">>
    /\ reads = {}
    /\ prev_failed = FALSE
    /\ writes = <<>>
    /\ sheet0 = sheet
    /\ last_good = INITIAL_VALUE

SpecClassify == InitClassify /\ [][Next]_vars

(***************************************************************************)
(* Properties                                                              *)
(***************************************************************************)
Attempted(step) == \E i \in DOMAIN steps : steps[i] = step
LastStep == IF steps = <<>> THEN "none" ELSE steps[Len(steps)]
\* run_once is over: it returned or its exception was handled
CycleOver == pc \in {"sleep", "main"} /\ steps # <<>>

\* C1: whatever step of a cycle raises, the exception is caught at the cycle
\* boundary, the loop reaches the sleep and a new cycle starts afterwards; the
\* process never terminates on a cycle-level error.
C1_NextCycleAlwaysStarts ==
    /\ [](pc # "exit")
    /\ [][pc = "except" => pc' = "sleep"]_vars
    /\ [][pc = "sleep" => pc' = "main"]_vars
    /\ []<>(pc = first_step /\ steps = <<>>)

\* A failed cycle is behind and main is about to start the next one.
C1_Witness == pc = "main" /\ exc # "none"

\* C2: the target cell is written exactly once in a cycle that returns normally
\* after publishing and not at all in a failed or skipped cycle, so the cell always
\* holds the label of the most recent successful cycle (or its initial value).
C2_CellHoldsLastSuccess ==
    /\ sheet[TARGET_CELL] = last_good
    /\ Len(writes) <= 1
    /\ pc = "except" => (writes = <<>> /\ sheet = sheet0)
    /\ CycleOver =>
          IF exc = "none" /\ bars # <<>>
          THEN writes = <<label>> /\ sheet[TARGET_CELL] = label
          ELSE writes = <<>> /\ sheet = sheet0

\* A cycle failed after an earlier one had published: the cell shows the stale label.
C2_Witness ==
    /\ pc = "sleep"
    /\ exc # "none"
    /\ sheet[TARGET_CELL] \in Labels
    /\ Attempted("classify")
    /\ label # sheet[TARGET_CELL]

\* The fetch of this cycle returned an empty list.
FetchReturnedEmpty ==
    /\ Attempted("fetch")
    /\ upstream = <<>>
    /\ ~(LastStep = "fetch" /\ exc # "none")

\* C3: when the upstream reports zero bars the cell is not written, no moving
\* average and no classification is computed, and run_once returns without raising.
C3_EmptySeriesSkips ==
    FetchReturnedEmpty =>
        /\ pc \in {"sleep", "main"}
        /\ exc = "none"
        /\ LastStep = "fetch"
        /\ ma_value = <<>> /\ label = "None"
        /\ writes = <<>> /\ sheet = sheet0

C3_Witness == FetchReturnedEmpty /\ pc = "sleep" /\ sheet[TARGET_CELL] \in Labels

RECURSIVE SumOver(_, _)
SumOver(s, I) ==
    IF I = {} THEN 0
    ELSE LET i == CHOOSE j \in I : TRUE IN s[i] + SumOver(s, I \ {i})

\* C5: for a non-empty list of closes compute_moving_average returns, without
\* raising, the arithmetic mean of the last window closes when window <= len(closes)
\* and the mean of all of them when window > len(closes).
C5_MovingAverage ==
    LET closes == ClosesOf(bars)
        n == Len(closes)
        k == IF MA_WINDOW <= n THEN MA_WINDOW ELSE n
    IN  (Attempted("moving_average") /\ closes # <<>>) =>
            /\ ~(LastStep = "moving_average" /\ exc # "none")
            /\ ma_value # <<>>
            /\ ma_value[2] > 0
            /\ ma_value[1] * k = SumOver(closes, (n - k + 1)..n) * ma_value[2]

\* The window (3) is larger than the two closes available and shrinks to 2.
C5_Witness ==
    /\ Attempted("moving_average")
    /\ MA_WINDOW = 3
    /\ ClosesOf(bars) = <<1, 2>>
    /\ ma_value = <<3, 2>>

\* The order of the calls of run_once in the source.
CodeOrder ==
    <<"client", "worksheet", "fetch", "moving_average", "last_bar", "classify",
      "previous", "update">>
IsPrefix(s, t) == Len(s) <= Len(t) /\ \A i \in DOMAIN s : s[i] = t[i]
PublisherSteps == {"client", "worksheet", "previous", "update"}

\* C6 as claimed: every publisher step (authenticate, open the document and locate
\* the tab, read or write the cell) happens only after the bars were fetched and
\* classified.
C6_PublisherOnlyAfterClassify ==
    \A i \in DOMAIN steps :
        steps[i] \in PublisherSteps =>
            /\ \E j \in 1..(i - 1) : steps[j] = "fetch"
            /\ \E j \in 1..(i - 1) : steps[j] = "classify"

\* C6 as amended: the calls of a cycle run in the order authenticate, open the
\* document and locate the tab, fetch, (return if empty), moving average, last
\* bar, classify, read previous value, write; only the cell read and the cell write
\* come after the classification, a failed publisher setup ends the cycle before
\* the fetch, and an empty-series cycle has contacted the document store but
\* touches no cell.
C6_CodeOrder ==
    /\ IsPrefix(steps, CodeOrder)
    /\ (Attempted("previous") \/ Attempted("update") \/ writes # <<>>)
          => (Attempted("fetch") /\ Attempted("classify") /\ label \in Labels)
    /\ (exc # "none" /\ LastStep \in {"client", "worksheet"}) => ~Attempted("fetch")
    /\ Attempted("fetch") => (Attempted("client") /\ Attempted("worksheet"))
    /\ FetchReturnedEmpty => (steps = <<"client", "worksheet", "fetch">> /\ writes = <<>>)

C6_Witness == pc = "sleep" /\ steps = CodeOrder /\ exc = "none"

\* C7: classify_trend with a zero average raises for every last price: no label
\* and no diff_pct are bound, and the cycle writes nothing to the target cell.
C7_ZeroAverageRaises ==
    (Attempted("classify") /\ ma_value[1] = 0) =>
        /\ pc \in {"except", "sleep", "main"}
        /\ exc = "ZeroDivisionError"
        /\ LastStep = "classify"
        /\ label = "None" /\ diff_pct = <<>>
        /\ writes = <<>> /\ sheet = sheet0

C7_Witness ==
    /\ Attempted("classify")
    /\ ma_value = <<0, 2>>
    /\ last_price = <<110>>
    /\ pc = "sleep"

Count(s, x) == Cardinality({i \in DOMAIN s : s[i] = x})

\* C8: for a non-empty upstream list in any order the fetch returns the same bars
\* sorted ascending by timestamp, so the last bar, whose close becomes last_price,
\* carries the latest timestamp.
C8_FetchSorts ==
    (Attempted("fetch") /\ upstream # <<>>) =>
        /\ Len(bars) = Len(upstream)
        /\ \A b \in BarValues : Count(bars, b) = Count(upstream, b)
        /\ \A i \in 1..(Len(bars) - 1) : bars[i].t <= bars[i + 1].t
        /\ \A i \in DOMAIN upstream : upstream[i].t <= bars[Len(bars)].t
        /\ last_price # <<>> => last_price[1] = bars[Len(bars)].c

\* The upstream sent the later bar first.
C8_Witness ==
    /\ Attempted("last_bar")
    /\ Len(upstream) = 2
    /\ upstream[1].t > upstream[2].t
    /\ last_price = <<upstream[1].c>>
    /\ upstream[1].c # upstream[2].c

\* C9: a failed read of the previous value does not abort the publish: the write of
\* the label is the next call of the same cycle and, unless the write itself fails,
\* the cell holds the label when the cycle ends; no cell but the target cell is
\* ever read or written.
C9_PreviousReadBestEffort ==
    /\ prev_failed =>
          /\ previous_value = "None"
          /\ pc \in {"update", "except", "sleep", "main"}
          /\ pc # "update" => LastStep = "update"
          /\ (pc # "update" /\ exc = "none") =>
                (writes = <<label>> /\ sheet[TARGET_CELL] = label)
    /\ reads \subseteq {TARGET_CELL}
    /\ \A a \in Cells \ {TARGET_CELL} : sheet[a] = INITIAL_VALUE

C9_Witness ==
    /\ prev_failed
    /\ pc = "sleep"
    /\ exc = "none"
    /\ label \in Labels
    /\ sheet[TARGET_CELL] = label
    /\ sheet0[TARGET_CELL] # label

\* The fetched series is non-empty and every bar carries a close > 0.
PositiveSeries ==
    /\ Attempted("fetch")
    /\ bars # <<>>
    /\ \A i \in DOMAIN bars : bars[i].hasC /\ bars[i].c > 0

====
